---- MODULE Spec2Model ----
(***************************************************************************)
(* State-machine model of the GRU layer of src/modules/layer.py (class     *)
(* GRU): construction, emb, forward, init_hidden and switch_mode.          *)
(*                                                                         *)
(* Tensors are sequences (rows) of sequences of integers; a tensor of the  *)
(* layer that is shared by reference (the one-hot buffer and what emb      *)
(* returns) is a handle [sid, device] into the heap `storage`.             *)
(* The numeric kernels of the tensor library (nn.GRU, nn.Linear, nn.Tanh)  *)
(* are computed in unit fixed point: sigmoid rounds to {0,1}, tanh clamps  *)
(* to [-1,1].                                                              *)
(***************************************************************************)
EXTENDS Integers, Sequences, FiniteSets, TLC

(* ------------------------------ dimensions ----------------------------- *)
batch_size  == 2      \* B
output_size == 3      \* C
input_size  == 2      \* width of an embedded row
hidden_size == 1      \* H
MaxLayers   == 2      \* num_layers ranges over 1..MaxLayers
MaxReturned == 2      \* distinct tensors a caller keeps from emb calls

Rows    == 1..batch_size
Cols    == 1..output_size
Feats   == 1..input_size
Units   == 1..hidden_size

\* dropout probabilities a layer is constructed with, in percent
DropoutRates == {0, 50}

\* the learnable parameters of the layer (self.parameters())
Params == {"h2o.weight", "h2o.bias",
           "gru.weight_ih", "gru.weight_hh", "gru.bias_ih", "gru.bias_hh"}

VARIABLES
    \* ---- fields of the layer
    training,        \* self.training
    requires_grad,   \* param.requires_grad, for each learnable parameter
    gru_training,    \* self.gru.training
    num_layers,      \* self.num_layers
    dropout_hidden,  \* self.dropout_hidden (percent)
    dropout_input,   \* self.dropout_input (percent)
    use_cuda,        \* self.use_cuda
    onehot_buffer,   \* self.onehot_buffer: a handle into storage
    storage,         \* heap: storage id -> contents of the tensor stored there
    \* ---- what the caller holds and what the calls returned
    returned,        \* handles returned by emb calls so far
    emb_call,        \* the latest emb call: its index, outcome and staleness
    h0,              \* the latest result of init_hidden (<<>> before any call)
    fwd,             \* the latest forward call: its inputs and results
    fwd_prev,        \* results of the inference call before it on the same inputs
    before,          \* (flag, requires_grad) at the start of the latest run of
                     \* consecutive switch_mode calls (at most the last two)
    lastOp           \* the operation that ran last

vars == <<training, requires_grad, gru_training, num_layers, dropout_hidden,
          dropout_input, use_cuda, onehot_buffer, storage, returned, emb_call,
          h0, fwd, fwd_prev, before, lastOp>>

modeVars   == <<training, requires_grad, gru_training>>
configVars == <<num_layers, dropout_hidden, dropout_input, use_cuda>>
embVars    == <<onehot_buffer, storage, returned, emb_call>>
fwdVars    == <<fwd, fwd_prev>>

(* ------------------------------- tensors ------------------------------- *)
Zeros2(r, c) == [i \in 1..r |-> [j \in 1..c |-> 0]]
Zeros3(l, r, c) == [k \in 1..l |-> Zeros2(r, c)]

Shape2(m) == <<Len(m), IF Len(m) = 0 THEN 0 ELSE Len(m[1])>>
Shape3(t) == <<Len(t)>> \o (IF Len(t) = 0 THEN <<0, 0>> ELSE Shape2(t[1]))


(* ------------------------------ the heap ------------------------------- *)
Sids == 0..MaxReturned
\* contents of a storage id that holds no tensor
Unallocated == <<>>
\* contents of an allocated tensor that was never written: torch.FloatTensor(B, C)
Uninitialized == <<<<>>>>

\* values an uninitialised cell may turn out to hold when it is first touched
GarbageValues == {0, 1}
\* (one value per row of the buffer)
GarbageMatrices == {[i \in Rows |-> [j \in Cols |-> g[i]]] : g \in [Rows -> GarbageValues]}

NoHandle == [sid |-> -1, device |-> "none"]
Read(h) == storage[h.sid]

(* --------------------------- construction ------------------------------ *)
\* (mutant) the buffer is left on the host whatever the device of the layer
init_emb_cpu(cuda) == [sid |-> 0, device |-> "cpu"]

\* init_emb: the buffer is allocated uninitialised, on the device of the layer
init_emb(cuda) == [sid |-> 0, device |-> IF cuda THEN "cuda" ELSE "cpu"]

\* nn.Parameter and nn.Module defaults, which __init__ leaves untouched:
\* every parameter tracks gradients and the recurrent stack is in train mode
DefaultRequiresGrad == [p \in Params |-> TRUE]
DefaultModuleTraining == TRUE

NoEmbCall == [status |-> "none", index |-> <<>>, value |-> NoHandle,
              stale |-> FALSE, earlier |-> FALSE]
NoForward == [status |-> "none", training |-> FALSE, embedded |-> <<>>,
              hidden_in |-> <<>>, target |-> <<>>, coins |-> <<>>,
              gru_input |-> <<>>, full |-> <<>>, logit |-> <<>>, hidden |-> <<>>]
NoResult == [status |-> "none", logit |-> <<>>, hidden |-> <<>>]

Init ==
    /\ training \in BOOLEAN                 \* the constructor's training argument
    /\ requires_grad = DefaultRequiresGrad
    /\ gru_training = DefaultModuleTraining
    /\ num_layers \in 1..MaxLayers
    /\ dropout_hidden \in DropoutRates
    /\ dropout_input \in DropoutRates
    /\ use_cuda \in BOOLEAN
    /\ onehot_buffer = init_emb(use_cuda)
    /\ storage = [s \in Sids |-> IF s = onehot_buffer.sid THEN Uninitialized
                                 ELSE Unallocated]
    /\ returned = {}
    /\ emb_call = NoEmbCall
    /\ h0 = <<>>
    /\ fwd = NoForward
    /\ fwd_prev = NoResult
    /\ before = <<>>
    /\ lastOp = "init"

(* ------------------------------ switch_mode ---------------------------- *)
\* for param in self.parameters(): param.requires_grad = self.training
SetRequiresGrad(flag) == [p \in Params |-> flag]
\* (mutant) the recurrent stack is put in train mode whatever the flag
GruTrainDefault(mode) == TRUE

\* self.gru.train(mode)
GruTrain(mode) == mode

SwitchMode ==
    LET flag == ~training IN
    /\ training' = flag
    /\ requires_grad' = SetRequiresGrad(flag)
    /\ gru_training' = GruTrain(flag)
    /\ before' = (IF lastOp = "switch_mode" /\ Len(before) > 0
                   THEN <<before[Len(before)]>> ELSE <<>>)
                  \o <<[training |-> training, requires_grad |-> requires_grad]>>
    /\ lastOp' = "switch_mode"
    /\ UNCHANGED <<configVars, embVars, h0, fwdVars>>

(* ------------------------------ init_hidden ---------------------------- *)
init_hidden == Zeros3(num_layers, batch_size, hidden_size)

InitHidden ==
    /\ h0' = init_hidden
    /\ before' = <<>>
    /\ lastOp' = "init_hidden"
    /\ UNCHANGED <<modeVars, configVars, embVars, fwdVars>>

(* ---------------------------------- emb -------------------------------- *)
\* a run of consecutive items starting at s, one per session
Ramp(s) == [j \in Rows |-> (s + j - 1) % output_size]
\* index vectors a caller may pass, of length B: in range (a run of items, or
\* the same item in every row), or with entries just outside [0, C)
ValidIndexVectors == {Ramp(s) : s \in 0..(output_size - 1)}
                     \cup {[j \in Rows |-> c] : c \in 0..(output_size - 1)}
BadIndexVectors == {[j \in Rows |-> IF j = i THEN b ELSE Ramp(0)[j]] :
                        i \in Rows, b \in {0 - 1, output_size}}
                   \cup {[j \in Rows |-> IF j = 1 THEN 0 - 1 ELSE output_size]}
IndexVectors == ValidIndexVectors \cup BadIndexVectors

\* onehot_buffer.zero_()
zero_(m) == [i \in DOMAIN m |-> [j \in DOMAIN m[i] |-> 0]]

\* (mutant) only the upper bound of an index is checked
ValidIndexUpper(v) == v < output_size

\* the bounds check of scatter_ on an index value, and the column it writes
ValidIndex(v) == v >= 0 /\ v < output_size
ScatterColumn(v) == v + 1

\* onehot_buffer.scatter_(1, index, 1), for the rows in `rows`
scatter_(m, index, rows) ==
    [i \in DOMAIN m |-> [j \in DOMAIN m[i] |->
        IF i \in rows /\ j = ScatterColumn(index[i]) THEN 1 ELSE m[i][j]]]

\* the encoding emb is specified to produce
OneHot(index) == [i \in Rows |-> [j \in Cols |-> IF j = index[i] + 1 THEN 1 ELSE 0]]

\* t.cuda(): the tensor itself when it is on the device already, else a copy
\* placed in the free storage `free`
Cuda(h, free) == IF h.device = "cuda" THEN h ELSE [sid |-> free, device |-> "cuda"]

FreeSids == {s \in Sids : storage[s] = Unallocated}

\* (mutant) the buffer is not flushed
NotFlushed(pre) == pre

\* the buffer after the flush
Flushed(pre) == zero_(pre)

Emb ==
    LET buf    == onehot_buffer
        \* the contents of a never-written buffer are whatever memory held
        before_flush == IF storage[buf.sid] = Uninitialized THEN GarbageMatrices
                        ELSE {storage[buf.sid]}
    IN
    \E index \in IndexVectors, pre \in before_flush :
      LET bad     == {i \in Rows : ~ValidIndex(index[i])}
          ok      == bad = {}
          one_hot == buf                \* Variable(self.onehot_buffer)
          free    == IF FreeSids = {} THEN 0 - 1
                     ELSE CHOOSE s \in FreeSids : \A t \in FreeSids : s <= t
          ret     == IF use_cuda THEN Cuda(one_hot, free) ELSE one_hot
          copied  == ok /\ ret.sid # buf.sid
      IN
      /\ copied => free \in Sids
      /\ \E done \in (IF ok THEN {Rows} ELSE SUBSET (Rows \ bad)) :
            LET data == scatter_(Flushed(pre), index, done) IN
            /\ storage' = [s \in Sids |->
                              IF s = buf.sid THEN data
                              ELSE IF copied /\ s = ret.sid THEN data
                              ELSE storage[s]]
            /\ returned' = IF ok THEN returned \cup {ret} ELSE returned
            /\ emb_call' = [status  |-> IF ok THEN "ok" ELSE "RangeError",
                            index   |-> index,
                            value   |-> IF ok THEN ret ELSE NoHandle,
                            stale   |-> \E i \in Rows, j \in Cols :
                                           pre[i][j] # 0 /\ j # index[i] + 1,
                            earlier |-> returned # {}]
      /\ before' = <<>>
      /\ lastOp' = "emb"
      /\ UNCHANGED <<modeVars, configVars, onehot_buffer, h0, fwdVars>>

(* -------------------------------- forward ------------------------------ *)
\* parameter values of the layer. (The layer never writes its parameters; an
\* optimiser outside it does.) Gates of the recurrent unit: "r", "z", "n".
WeightIh(g, k, j) == IF g = "z" THEN 0 - 1 ELSE 1
WeightHh(g, k, m) == IF g = "n" THEN 0 - 1 ELSE 1
BiasOf(g, k) == IF g = "r" THEN 1 ELSE 0
H2oWeight(c, k) == ((c + k) % 3) - 1
H2oBias(c) == 0

\* weights . v, the weights given entry by entry: IhDot with row k of weight_ih
\* of gate g, HhDot with row k of weight_hh, H2oDot with row c of the h2o weight
RECURSIVE IhDot(_, _, _, _), HhDot(_, _, _, _), H2oDot(_, _, _)
IhDot(n, g, k, x) == IF n <= 0 THEN 0 ELSE WeightIh(g, k, n) * x[n] + IhDot(n - 1, g, k, x)
HhDot(n, g, k, h) == IF n <= 0 THEN 0 ELSE WeightHh(g, k, n) * h[n] + HhDot(n - 1, g, k, h)
H2oDot(n, c, o) == IF n <= 0 THEN 0 ELSE H2oWeight(c, n) * o[n] + H2oDot(n - 1, c, o)

\* sigmoid and tanh in unit fixed point
Sigmoid(a) == IF a > 0 THEN 1 ELSE 0
Tanh(a) == IF a > 1 THEN 1 ELSE IF a < 0 - 1 THEN 0 - 1 ELSE a

\* one gated recurrent unit of layer l: input row x, previous state row h
\*   r = sigmoid(W_ir x + W_hr h + b_r),  z = sigmoid(W_iz x + W_hz h + b_z)
\*   n = tanh(W_in x + r * (W_hn h + b_n)),  h' = (1 - z) * n + z * h
Gate(g, k, x, h) == IhDot(Len(x), g, k, x) + HhDot(Len(h), g, k, h) + BiasOf(g, k)
NewGate(r, k, x, h) ==
    Tanh(IhDot(Len(x), "n", k, x) + r * (HhDot(Len(h), "n", k, h) + BiasOf("n", k)))
Blend(z, n, hk) == (1 - z) * n + z * hk
GruUnits(x, h) ==
    [k \in Units |->
        Blend(Sigmoid(Gate("z", k, x, h)),
              NewGate(Sigmoid(Gate("r", k, x, h)), k, x, h),
              h[k])]

\* GruUnits tabulated over the rows a layer can see: a first layer reads
\* embedded rows (features 0 or 1), a stacked layer reads the state below it,
\* scaled by the dropout between the layers; states stay within [-1, 1]
StateValues == (0 - 1)..1
ScaledValues == {(v * 100) \div (100 - p) : v \in StateValues, p \in DropoutRates}
FirstLayerTable ==
    [x \in [Feats -> {0, 1}] |-> [h \in [Units -> StateValues] |-> GruUnits(x, h)]]
StackedLayerTable ==
    [x \in [Units -> ScaledValues] |-> [h \in [Units -> StateValues] |-> GruUnits(x, h)]]
GruCell(l, x, h) == IF l = 1 THEN FirstLayerTable[x][h] ELSE StackedLayerTable[x][h]

\* nn.Dropout on one row with keep mask m and drop probability p (percent):
\* kept entries are scaled by 1 / (1 - p)
Dropout(v, m, p) ==
    [k \in DOMAIN v |-> IF p >= 100 THEN 0 ELSE (v[k] * m[k] * 100) \div (100 - p)]

\* whether nn.GRU applies dropout between its stacked layers
HiddenDropoutOn == gru_training /\ dropout_hidden > 0

\* keep masks nn.GRU may draw for the outputs of layers 1..L-1. The draws
\* considered: nothing dropped, or below one layer every entry, the first
\* entry or the last entry dropped.
KeepAll == [i \in Rows |-> [k \in Units |-> 1]]
DropMasks == {[i \in Rows |-> [k \in Units |-> 0]]}
             \cup {[i \in Rows |-> [k \in Units |-> IF i = e[1] /\ k = e[2] THEN 0 ELSE 1]] :
                      e \in {<<1, 1>>, <<batch_size, hidden_size>>}}
HiddenMasks ==
    {[l \in 1..(num_layers - 1) |-> KeepAll]}
    \cup (IF HiddenDropoutOn
          THEN {[l \in 1..(num_layers - 1) |-> IF l = g THEN m ELSE KeepAll] :
                  g \in 1..(num_layers - 1), m \in DropMasks}
          ELSE {})

\* self.gru(embedded, hidden): the new state of layers l..L, x the input of layer l.
\* GruRest continues from the new state hl of layer l.
RECURSIVE GruLayers(_, _, _, _), GruRest(_, _, _, _)
GruLayers(l, x, hidden, masks) ==
    GruRest(l, [i \in Rows |-> GruCell(l, x[i], hidden[l][i])], hidden, masks)
GruRest(l, hl, hidden, masks) ==
    IF l >= num_layers THEN <<hl>>
    ELSE <<hl>> \o GruLayers(l + 1,
                             IF HiddenDropoutOn
                             THEN [i \in Rows |-> Dropout(hl[i], masks[l][i], dropout_hidden)]
                             ELSE hl,
                             hidden, masks)

\* self.tanh(self.h2o(output)): (B, C)
Logits(output) ==
    [i \in Rows |-> [c \in Cols |->
        Tanh(H2oDot(hidden_size, c, output[i]) + H2oBias(c))]]

\* (mutant) the logits are returned unsampled
SampleNone(logit, target) == logit
\* (mutant) each session is scored on its own target only
SampleOwn(logit, target) ==
    [i \in DOMAIN logit |-> [j \in DOMAIN target |-> logit[i][target[i] + 1]]]

\* logit[:, target.view(-1)]
Sample(logit, target) ==
    [i \in DOMAIN logit |-> [j \in DOMAIN target |-> logit[i][target[j] + 1]]]

\* coins torch.bernoulli may draw with keep probability 1 - dropout_input. The
\* draws considered when both outcomes are possible: no row, every row, the
\* first row or the last row dropped.
Coins(p) == IF p <= 0 THEN {[i \in Rows |-> 1]}
            ELSE IF p >= 100 THEN {[i \in Rows |-> 0]}
            ELSE {[i \in Rows |-> 1], [i \in Rows |-> 0]}
                 \cup {[i \in Rows |-> IF i = d THEN 0 ELSE 1] : d \in {1, batch_size}}

\* (mutant) the coin masks the first feature only
InputDropoutFirst(embedded, coins) ==
    [i \in DOMAIN embedded |-> [j \in DOMAIN embedded[i] |->
        IF j = 1 THEN embedded[i][j] * coins[i] ELSE embedded[i][j]]]

\* embedded * mask, mask the coins expanded along the features
InputDropout(embedded, coins) ==
    [i \in DOMAIN embedded |-> [j \in DOMAIN embedded[i] |-> embedded[i][j] * coins[i]]]

\* inputs a caller may pass
\* embedded batches: every feature set in every row, or every other row one-hot
Embeddeds == {[i \in Rows |-> [j \in Feats |-> 1]],
              [i \in Rows |-> [j \in Feats |-> IF i % 2 = 0 \/ j = 1 THEN 1 ELSE 0]]}
\* targets: a run of consecutive items, or the same item for every session
Targets == {Ramp(0), Ramp(1)} \cup {[j \in Rows |-> output_size - 1]}
NoTarget == <<>>
\* the hidden state a caller passes, once init_hidden has started a session:
\* the one init_hidden returned, or the saturated state of a session under way
HiddenInputs ==
    IF h0 = <<>> THEN {}
    ELSE {h0, [l \in 1..num_layers |-> [i \in Rows |-> [k \in Units |-> 1]]]}

\* lines 58-75 of forward: the input fed to the recurrent stack, the new hidden
\* state and the full (B, C) logits
Projected(gru_input, hidden_new) ==
    [gru_input |-> gru_input, hidden |-> hidden_new,
     full |-> Logits(hidden_new[num_layers])]
Recurrent(gru_input, hidden, masks) ==
    Projected(gru_input, GruLayers(1, gru_input, hidden, masks))
ForwardPass(embedded, hidden, coins, masks) ==
    Recurrent(IF training THEN InputDropout(embedded, coins) ELSE embedded,
              hidden, masks)

Forward ==
    \E embedded \in Embeddeds, hidden \in HiddenInputs,
       coins \in (IF training THEN Coins(dropout_input) ELSE {<<>>}),
       masks \in HiddenMasks :
      \E pass \in {ForwardPass(embedded, hidden, coins, masks)},
         target \in (IF training THEN Targets ELSE {NoTarget, Ramp(0)}) :
        /\ fwd_prev' = IF ~training /\ fwd.status = "ok" /\ ~fwd.training
                          /\ fwd.embedded = embedded /\ fwd.hidden_in = hidden
                       THEN [status |-> "ok", logit |-> fwd.logit, hidden |-> fwd.hidden]
                       ELSE NoResult
        /\ fwd' = [status |-> "ok", training |-> training, embedded |-> embedded,
                   hidden_in |-> hidden, target |-> target, coins |-> coins,
                   gru_input |-> pass.gru_input, full |-> pass.full,
                   logit |-> IF training THEN Sample(pass.full, target) ELSE pass.full,
                   hidden |-> pass.hidden]
        /\ before' = <<>>
        /\ lastOp' = "forward"
        /\ UNCHANGED <<modeVars, configVars, embVars, h0>>

(* ---------------------------- specifications -------------------------- *)
Next == Emb \/ Forward \/ InitHidden \/ SwitchMode
Spec == Init /\ [][Next]_vars

\* the layer under emb calls (with init_hidden and switch_mode in between)
NextEmb == Emb \/ InitHidden \/ SwitchMode
SpecEmb == Init /\ [][NextEmb]_vars

\* the layer under forward calls (with init_hidden and switch_mode in between),
\* placed on the device as by default: forward computes the same on either
InitFwd == Init /\ use_cuda
NextFwd == Forward \/ InitHidden \/ SwitchMode
SpecFwd == InitFwd /\ [][NextFwd]_vars

\* every operation, on the layers built with one recurrent layer and no dropout
InitPlain == Init /\ num_layers = 1 /\ dropout_hidden = 0 /\ dropout_input = 0
SpecLayer == InitPlain /\ [][Next]_vars

(* -------------------------------- claims ------------------------------- *)
BadRows(index) == {i \in Rows : index[i] < 0 \/ index[i] >= output_size}
ZeroRow(n) == [j \in 1..n |-> 0]
ModeAgrees == /\ \A p \in Params : requires_grad[p] = training
              /\ gru_training = training

\* C1: the matrix returned by the latest emb call on in-range indices is (B, C)
\* with a single 1 per row, at column index[i]; nothing the buffer held before
\* the call (an earlier encoding, or uninitialised memory) remains in it.
EmbOneHot ==
    emb_call.status = "ok" =>
        /\ Shape2(Read(emb_call.value)) = <<batch_size, output_size>>
        /\ Read(emb_call.value) = OneHot(emb_call.index)
EmbOneHotWitness ==
    /\ lastOp = "emb" /\ emb_call.status = "ok"
    /\ emb_call.stale /\ emb_call.earlier

\* C2: in every reachable state the mode flag, every parameter's requires_grad
\* and the train/eval mode of the recurrent stack agree.
ModeConsistent == ModeAgrees

\* C3: two switch_mode calls in a row restore the mode flag and every
\* parameter's requires_grad to their values before the two calls.
SwitchTwiceRestores ==
    (lastOp = "switch_mode" /\ Len(before) = 2) =>
        /\ training = before[1].training
        /\ requires_grad = before[1].requires_grad

\* C4: with the mode flag at inference, two forward calls on the same
\* (embedded, hidden) pair return the same logits and the same hidden state.
InferenceDeterministic ==
    (fwd.status = "ok" /\ ~fwd.training /\ fwd_prev.status = "ok") =>
        /\ fwd.logit = fwd_prev.logit
        /\ fwd.hidden = fwd_prev.hidden

\* C5: forward returns a hidden state of shape (L, B, H) in either mode; logits
\* of shape (B, B) in training mode, for a length-B target; and in inference
\* mode the full (B, C) logits, whatever the target argument is.
ForwardShapes ==
    fwd.status = "ok" =>
        /\ Shape3(fwd.hidden) = <<num_layers, batch_size, hidden_size>>
        /\ fwd.training =>
              (Len(fwd.target) = batch_size
                  => Shape2(fwd.logit) = <<batch_size, batch_size>>)
        /\ ~fwd.training =>
              /\ Shape2(fwd.logit) = <<batch_size, output_size>>
              /\ fwd.logit = fwd.full
ForwardShapesWitness ==
    /\ lastOp = "forward" /\ fwd.status = "ok"
    /\ ~fwd.training /\ fwd.target = NoTarget /\ num_layers > 1

\* C6: in training mode entry (i, j) of the returned logits is entry (i, t[j])
\* of the full logits of the same call, so columns of sessions with the same
\* target are equal.
SampledLogits ==
    (fwd.status = "ok" /\ fwd.training) =>
        /\ \A i \in Rows, j \in Rows :
              fwd.logit[i][j] = fwd.full[i][fwd.target[j] + 1]
        /\ \A j \in Rows, k \in Rows :
              fwd.target[j] = fwd.target[k] =>
                  \A i \in Rows : fwd.logit[i][j] = fwd.logit[i][k]
SampledLogitsWitness ==
    /\ lastOp = "forward" /\ fwd.status = "ok" /\ fwd.training
    /\ \E j \in Rows, k \in Rows : j # k /\ fwd.target[j] = fwd.target[k]
    /\ \E i \in Rows, c \in Cols : fwd.full[i][c] # fwd.full[i][fwd.target[1] + 1]

SwitchModeAtomic ==
    lastOp = "switch_mode" =>
        /\ training = ~before[Len(before)].training
        /\ ModeAgrees
SwitchModeAtomicWitness ==
    /\ lastOp = "switch_mode" /\ ~training
    /\ before[Len(before)].requires_grad = [p \in Params |-> TRUE]

\* C9: in training mode each row fed to the recurrent stack is the caller's
\* row (coin 1) or all zeros (coin 0), and with dropout_input = 0 every row is
\* kept; in inference mode the embedded batch is fed unchanged.
InputDropoutRowwise ==
    fwd.status = "ok" =>
        IF fwd.training
        THEN /\ \A i \in Rows :
                  \/ fwd.coins[i] = 1 /\ fwd.gru_input[i] = fwd.embedded[i]
                  \/ fwd.coins[i] = 0 /\ fwd.gru_input[i] = ZeroRow(input_size)
             /\ dropout_input = 0 => fwd.gru_input = fwd.embedded
        ELSE fwd.gru_input = fwd.embedded
InputDropoutRowwiseWitness ==
    /\ lastOp = "forward" /\ fwd.status = "ok" /\ fwd.training
    /\ \E i \in Rows, k \in Rows :
          /\ fwd.coins[i] = 0 /\ fwd.coins[k] = 1
          /\ fwd.embedded[i] = [j \in Feats |-> 1]
          /\ fwd.gru_input[k] # ZeroRow(input_size)

\* C10: every matrix emb returned is the one-hot buffer itself: it holds the
\* encoding of the latest emb call, and forward, init_hidden and switch_mode
\* leave the buffer, and so every returned matrix, unchanged.
EmbSharesBuffer ==
    /\ [](\A h \in returned :
            /\ Read(h) = Read(onehot_buffer)
            /\ emb_call.status = "ok" => Read(h) = OneHot(emb_call.index))
    /\ [][lastOp' \in {"forward", "init_hidden", "switch_mode"}
            => storage' = storage /\ returned' = returned]_vars
EmbSharesBufferWitness ==
    /\ lastOp = "forward" /\ emb_call.status = "ok"
    /\ emb_call.stale /\ emb_call.earlier /\ returned # {}
====
